---- MODULE Spec2Model ----
(***************************************************************************)
(* A model of option-block's BlockN<T> (src/src/lib.rs) and of its owning, *)
(* shared and mutable iterators (src/src/iter.rs): a fixed array of        *)
(* MaybeUninit<T> slots whose occupancy is recorded in an integer mask.    *)
(*                                                                         *)
(* Values of type T are modelled by identities 1..MaxIds.  A ledger        *)
(* (place, drops) records, for every value, who owns it and how often its  *)
(* destructor has run, so that leaks and double releases are observable.   *)
(* Reading a slot as a T while it is not constructed is undefined          *)
(* behaviour: the model records it in ub and lets the read return either   *)
(* garbage or a bitwise copy of some existing value.                       *)
(***************************************************************************)
EXTENDS Integers, FiniteSets, Sequences, TLC

\* ------------------------------------------------------------------ bounds
\* Bit width of the mask integer of the modelled block variant.
BITS == 3
\* Number of distinct values of type T the caller can ever create.
MaxIds == 3

\* ------------------------------------------------------- program constants
CAPACITY == BITS
\* variant: the all-ones value of an integer one bit narrower
MAX_narrow == 2^(BITS - 1) - 1
MAX == 2^BITS - 1

Stores == {1, 2}
Slots == 0 .. (CAPACITY - 1)
\* indices a caller may pass: every valid one and one that is out of range
Indices == 0 .. CAPACITY
\* the values the caller creates, and the clone of each (v + MaxIds)
Ids == 1 .. MaxIds
CloneIds == (MaxIds + 1) .. (2 * MaxIds)
\* one more value of the caller, which it offers only to a full store
Spare == 2 * MaxIds + 1
AllIds == Ids \cup CloneIds \cup {Spare}
clone_of(v) == v + MaxIds
\* what a read of unconstructed memory yields when it is no value at all
Garbage == 0

\* A MaybeUninit<T> cell holds the value it was constructed with, or Uninit.
Uninit == 0
MaybeUninit_new(v) == v
MaybeUninit_uninit == Uninit

VARIABLES
    st,     \* st[s]: "none" | "live" | "ref" | "mut" | "iter" | "gone"
    mask,   \* mask[s]: the occupancy mask (of the block, then of its IntoIter)
    data,   \* data[s][i]: the MaybeUninit<T> cell of slot i
    pos,    \* pos[s]: number of cells the owning iterator has taken
    place,  \* place[v]: "unborn" | "held" | "caller" | "released"
    drops,  \* drops[v]: how often the destructor of v has run (capped at 2)
    ub,     \* undefined behaviour has happened
    last    \* the last operation: its name, store, index, argument, result

vars == <<st, mask, data, pos, place, drops, ub, last>>

\* -------------------------------------------------------------- bit helpers
RECURSIVE count_ones(_), count_ones_skip_low(_), trailing_zeros(_), bit_length(_)
bit(m, i) == (m \div (2^i)) % 2
shl1(i) == 2^i
\* m | b and m & !b for a one-bit b = 1 << i, in BITS-bit arithmetic
bitor(m, i) == IF bit(m, i) = 1 THEN m ELSE (m + shl1(i)) % (2^BITS)
bitandnot(m, i) == IF bit(m, i) = 1 THEN m - shl1(i) ELSE m
\* variant: a population count that misses the lowest bit
count_ones_skip_low(m) == IF m = 0 THEN 0 ELSE count_ones_skip_low(m \div 2) + ((m \div 2) % 2)
\* <$int>::count_ones: the population count of m
count_ones(m) == IF m = 0 THEN 0 ELSE (m % 2) + count_ones(m \div 2)
\* !mask, in the width of the integer
bitnot(m) == (2^BITS - 1) - m
\* <$int>::trailing_zeros (BITS for 0)
trailing_zeros(m) == IF m = 0 THEN BITS ELSE IF m % 2 = 1 THEN 0 ELSE 1 + trailing_zeros(m \div 2)
\* number of bits needed to write m
bit_length(m) == IF m = 0 THEN 0 ELSE 1 + bit_length(m \div 2)
\* <$int>::leading_zeros (BITS for 0)
leading_zeros(m) == BITS - bit_length(m)

\* ------------------------------------------------------------ result values
None == [tag |-> "none", val |-> 0]
Some(v) == [tag |-> "some", val |-> v]
Panic == [tag |-> "panic", val |-> 0]
Unit == [tag |-> "unit", val |-> 0]
Bool(b) == [tag |-> IF b THEN "true" ELSE "false", val |-> 0]
Num(n) == [tag |-> "num", val |-> n]
\* Result<Option<T>, T>
Ok(r) == [tag |-> "ok", val |-> r.val, some |-> r.tag = "some"]
Err(v) == [tag |-> "err", val |-> v]

\* The record of a call.  For a remove, pre is the value the call before it
\* inserted at the same index of the same store (Garbage if it did no such
\* thing, and for every other call but those of a borrowing iterator, where
\* pre is the sequence of the values the iterator has yielded so far).
Op(name, s, idx, arg, res) ==
    [op |-> name, s |-> s, idx |-> idx, arg |-> arg, res |-> res,
     pre |-> IF name = "remove" /\ last.op = "insert" /\ last.s = s
                /\ last.idx = idx /\ last.res # Panic
             THEN last.arg ELSE Garbage]

\* ------------------------------------------------------------------ ledger
\* values the caller can hand to the store: one it owns, or the next new one
Unborn == {v \in Ids : place[v] = "unborn"}
Fresh == IF Unborn = {} THEN {} ELSE {CHOOSE v \in Unborn : \A w \in Unborn : v <= w}
Owned == {v \in Ids : place[v] = "caller" /\ drops[v] = 0}
Args == Fresh \cup Owned
\* the spare value, while store s is full and the caller has the value
SpareArgs(s) ==
    IF bitnot(mask[s]) = 0 /\ place[Spare] \in {"unborn", "caller"} /\ drops[Spare] = 0
    THEN {Spare} ELSE {}

Born == {v \in AllIds : place[v] # "unborn"}
live(cell) == cell # Uninit
\* assume_init / assume_init_ref / assume_init_mut: the value of a constructed
\* cell.  Of an unconstructed cell it is undefined behaviour: the bytes read
\* are garbage or a bitwise copy of a value that exists somewhere.
assume_init(cell) == IF live(cell) THEN {cell} ELSE {Garbage} \cup Born

inc(n) == IF n < 2 THEN n + 1 ELSE 2

\* The destructor of every value of the set D runs once more.
Dropped(D) == [v \in AllIds |-> IF v \in D THEN inc(drops[v]) ELSE drops[v]]

\* ---------------------------------------------------------------- the block
\* An operation can be called on store s while s is in state q.  Once a slot
\* has been read as a value while unconstructed, the behaviour of the program
\* is undefined and the model follows it no further.
Callable(s, q) == ~ub /\ st[s] = q

\* variant: an off-by-one bound check that lets index = CAPACITY through
is_vacant_assert_inclusive(index) == index <= CAPACITY
is_vacant_assert(index) == index < CAPACITY
is_vacant(m, index) == bit(m, index) = 0
len(m) == count_ones(m)
is_empty(m) == m = 0

\* variant: the scan from below reports the index after the lowest set bit
lowest_index_next(m) ==
    IF trailing_zeros(m) + 1 < CAPACITY THEN Some(trailing_zeros(m) + 1) ELSE None
\* const fn lowest_index(mask: $int) -> Option<u32>
lowest_index(m) ==
    IF trailing_zeros(m) < CAPACITY THEN Some(trailing_zeros(m)) ELSE None
\* variant: the scan from the top returns the index of the lowest set bit
highest_index_trailing(m) ==
    IF trailing_zeros(m) < CAPACITY THEN Some(trailing_zeros(m)) ELSE None
\* const fn highest_index(mask: $int) -> Option<u32>
highest_index(m) ==
    IF CAPACITY - leading_zeros(m) = 0 THEN None
    ELSE Some((CAPACITY - leading_zeros(m)) - 1)
lowest_occupied_index(m) == lowest_index(m)
\* variant: the last occupied index is taken from the scan from below
highest_occupied_index_low(m) == lowest_index(m)
highest_occupied_index(m) == highest_index(m)
\* variants: the vacancy scans forget to negate the mask
lowest_vacant_index_occ(m) == lowest_index(m)
highest_vacant_index_occ(m) == highest_index(m)
lowest_vacant_index(m) == lowest_index(bitnot(m))
highest_vacant_index(m) == highest_index(bitnot(m))

\* The getters that read only the mask, as calls: which is one of the names
\* of Getters.
Getters == {"len", "is_empty", "lowest_occupied_index", "highest_occupied_index",
            "lowest_vacant_index", "highest_vacant_index"}
getter(which, m) ==
    CASE which = "len" -> Num(len(m))
      [] which = "is_empty" -> Bool(is_empty(m))
      [] which = "lowest_occupied_index" -> lowest_occupied_index(m)
      [] which = "highest_occupied_index" -> highest_occupied_index(m)
      [] which = "lowest_vacant_index" -> lowest_vacant_index(m)
      [] which = "highest_vacant_index" -> highest_vacant_index(m)
call_getter(s, which) ==
    /\ Callable(s, "live")
    /\ last' = Op(which, s, 0, 0, getter(which, mask[s]))
    /\ UNCHANGED <<st, mask, data, pos, place, drops, ub>>

\* variant: new leaves the mask all ones over unconstructed slots
new_mask_set(s) ==
    /\ st[s] = "none"
    /\ st' = [st EXCEPT ![s] = "live"]
    /\ mask' = [mask EXCEPT ![s] = MAX]
    /\ data' = [data EXCEPT ![s] = [i \in Slots |-> Uninit]]
    /\ last' = Op("new", s, 0, 0, Unit)
    /\ UNCHANGED <<pos, place, drops, ub>>
\* pub const fn new() -> Self
new(s) ==
    /\ st[s] = "none"
    /\ st' = [st EXCEPT ![s] = "live"]
    /\ mask' = [mask EXCEPT ![s] = 0]
    /\ data' = [data EXCEPT ![s] = [i \in Slots |-> Uninit]]
    /\ last' = Op("new", s, 0, 0, Unit)
    /\ UNCHANGED <<pos, place, drops, ub>>

\* impl From<[T; BITS]>: every slot constructed, mask all ones
from(s) ==
    /\ st[s] = "none"
    /\ st' = [st EXCEPT ![s] = "live"]
    /\ mask' = [mask EXCEPT ![s] = MAX]
    /\ data' = [data EXCEPT ![s] = [i \in Slots |-> MaybeUninit_new(i + 1)]]
    /\ place' = [v \in AllIds |-> IF v <= CAPACITY THEN "held" ELSE place[v]]
    /\ last' = Op("from", s, 0, 0, Unit)
    /\ UNCHANGED <<pos, drops, ub>>

\* the caller calls is_vacant(index)
call_is_vacant(s, index) ==
    /\ Callable(s, "live")
    /\ last' = Op("is_vacant", s, index, 0,
                  IF ~is_vacant_assert(index) THEN Panic
                  ELSE Bool(is_vacant(mask[s], index)))
    /\ UNCHANGED <<st, mask, data, pos, place, drops, ub>>

\* variant: the replaced value is dropped silently instead of being returned
insert_result_none(vacant, g) == None
\* let vacant = self.is_vacant(index)  ... if vacant { None } else { Some(..) }
insert_result(vacant, g) == IF vacant THEN None ELSE Some(g)
\* variant: the call sets bit 0 along with the bit of the index
insert_mask_low(m, index) == bitor(bitor(m, index), 0)
\* self.mask |= 1 << index
insert_mask(m, index) == bitor(m, index)
\* core::mem::replace(&mut self.data[index], MaybeUninit::new(value))
insert_data(d, index, value) == [d EXCEPT ![index] = MaybeUninit_new(value)]

\* pub const fn insert(&mut self, index: usize, value: T) -> Option<T>
insert(s, index, value) ==
    /\ Callable(s, "live")
    /\ IF ~is_vacant_assert(index)
       THEN \* the assertion fails; the unwinding drops the argument
            /\ place' = [place EXCEPT ![value] = "released"]
            /\ drops' = Dropped({value})
            /\ last' = Op("insert", s, index, value, Panic)
            /\ UNCHANGED <<st, mask, data, pos, ub>>
       ELSE LET vacant == is_vacant(mask[s], index)
                old == data[s][index]
            IN  /\ data' = [data EXCEPT ![s] = insert_data(data[s], index, value)]
                /\ mask' = [mask EXCEPT ![s] = insert_mask(mask[s], index)]
                /\ \E g \in (IF vacant THEN {Garbage} ELSE assume_init(old)) :
                      /\ last' = Op("insert", s, index, value, insert_result(vacant, g))
                      /\ place' = [v \in AllIds |->
                            IF v = value THEN "held"
                            ELSE IF ~vacant /\ live(old) /\ v = old THEN "caller"
                            ELSE place[v]]
                /\ ub' = (ub \/ (~vacant /\ ~live(old)))
                /\ UNCHANGED <<st, pos, drops>>

\* variant: remove forgets to clear the bit
remove_mask_keep(m, index) == m
\* variant: remove clears the whole mask
remove_mask_all(m, index) == 0
\* self.mask &= !(1 << index)
remove_mask(m, index) == bitandnot(m, index)
\* core::mem::replace(&mut self.data[index], MaybeUninit::uninit())
remove_data(d, index) == [d EXCEPT ![index] = MaybeUninit_uninit]

\* pub const fn remove(&mut self, index: usize) -> Option<T>
remove(s, index) ==
    /\ Callable(s, "live")
    /\ IF ~is_vacant_assert(index)
       THEN /\ last' = Op("remove", s, index, 0, Panic)
            /\ UNCHANGED <<st, mask, data, pos, place, drops, ub>>
       ELSE IF is_vacant(mask[s], index)
       THEN /\ last' = Op("remove", s, index, 0, None)
            /\ UNCHANGED <<st, mask, data, pos, place, drops, ub>>
       ELSE LET old == data[s][index]
            IN  /\ data' = [data EXCEPT ![s] = remove_data(data[s], index)]
                /\ mask' = [mask EXCEPT ![s] = remove_mask(mask[s], index)]
                /\ \E g \in assume_init(old) :
                      /\ last' = Op("remove", s, index, 0, Some(g))
                      /\ place' = [v \in AllIds |->
                            IF live(old) /\ v = old THEN "caller" ELSE place[v]]
                /\ ub' = (ub \/ ~live(old))
                /\ UNCHANGED <<st, pos, drops>>

\* pub const fn get(&self, index: usize) -> Option<&T>
get(s, index) ==
    /\ Callable(s, "live")
    /\ IF ~is_vacant_assert(index)
       THEN /\ last' = Op("get", s, index, 0, Panic)
            /\ UNCHANGED ub
       ELSE IF is_vacant(mask[s], index)
       THEN /\ last' = Op("get", s, index, 0, None)
            /\ UNCHANGED ub
       ELSE /\ \E g \in assume_init(data[s][index]) :
                  last' = Op("get", s, index, 0, Some(g))
            /\ ub' = (ub \/ ~live(data[s][index]))
    /\ UNCHANGED <<st, mask, data, pos, place, drops>>


\* pub const fn get_mut(&mut self, index: usize) -> Option<&mut T>, and the
\* caller's write `*r = w` through the reference (w = Garbage: no write).
get_mut(s, index, w) ==
    /\ Callable(s, "live")
    /\ IF ~is_vacant_assert(index)
       THEN /\ w = Garbage
            /\ last' = Op("get_mut", s, index, w, Panic)
            /\ UNCHANGED <<st, mask, data, pos, place, drops, ub>>
       ELSE IF is_vacant(mask[s], index)
       THEN /\ w = Garbage
            /\ last' = Op("get_mut", s, index, w, None)
            /\ UNCHANGED <<st, mask, data, pos, place, drops, ub>>
       ELSE LET old == data[s][index]
            IN  /\ \E g \in assume_init(old) :
                      /\ last' = Op("get_mut", s, index, w, Some(g))
                      /\ drops' = IF w = Garbage THEN drops ELSE Dropped({g})
                /\ data' = IF w = Garbage THEN data
                           ELSE [data EXCEPT ![s][index] = MaybeUninit_new(w)]
                /\ place' = [v \in AllIds |->
                      IF w = Garbage THEN place[v]
                      ELSE IF v = w THEN "held"
                      ELSE IF live(old) /\ v = old THEN "released"
                      ELSE place[v]]
                /\ ub' = (ub \/ ~live(old))
                /\ UNCHANGED <<st, mask, pos>>

\* self.mask |= 1 << index, done before func() is called
\* variant: get_or_else forgets to set the bit
get_or_else_mask_keep(m, index) == m
get_or_else_mask(m, index) == bitor(m, index)

\* pub fn get_or_else(&mut self, index: usize, func: impl FnOnce() -> T) -> &mut T
\* func constructs a new value, or panics.
get_or_else(s, index, func) ==
    /\ Callable(s, "live")
    /\ IF ~is_vacant_assert(index)
       THEN /\ last' = Op("get_or_else", s, index, 0, Panic)
            /\ UNCHANGED <<st, mask, data, pos, place, drops, ub>>
       ELSE IF is_vacant(mask[s], index)
       THEN /\ mask' = [mask EXCEPT ![s] = get_or_else_mask(mask[s], index)]
            /\ IF func = "panic"
               THEN /\ last' = Op("get_or_else", s, index, 0, Panic)
                    /\ UNCHANGED <<data, place>>
               ELSE \E v \in Fresh :
                    /\ data' = [data EXCEPT ![s][index] = MaybeUninit_new(v)]
                    /\ place' = [place EXCEPT ![v] = "held"]
                    /\ last' = Op("get_or_else", s, index, v, Some(v))
            /\ UNCHANGED <<st, pos, drops, ub>>
       ELSE /\ \E g \in assume_init(data[s][index]) :
                  last' = Op("get_or_else", s, index, 0, Some(g))
            /\ ub' = (ub \/ ~live(data[s][index]))
            /\ UNCHANGED <<st, mask, data, pos, place, drops>>

\* pub fn get_or(&mut self, index: usize, val: T) -> &mut T
\* self.get_or_else(index, || val): the closure owns val, and val is dropped
\* with the closure when the closure is not called.
get_or(s, index, val) ==
    /\ Callable(s, "live")
    /\ IF ~is_vacant_assert(index)
       THEN /\ last' = Op("get_or", s, index, val, Panic)
            /\ place' = [place EXCEPT ![val] = "released"]
            /\ drops' = Dropped({val})
            /\ UNCHANGED <<st, mask, data, pos, ub>>
       ELSE IF is_vacant(mask[s], index)
       THEN /\ mask' = [mask EXCEPT ![s] = get_or_else_mask(mask[s], index)]
            /\ data' = [data EXCEPT ![s][index] = MaybeUninit_new(val)]
            /\ place' = [place EXCEPT ![val] = "held"]
            /\ last' = Op("get_or", s, index, val, Some(val))
            /\ UNCHANGED <<st, pos, drops, ub>>
       ELSE /\ \E g \in assume_init(data[s][index]) :
                  last' = Op("get_or", s, index, val, Some(g))
            /\ place' = [place EXCEPT ![val] = "released"]
            /\ drops' = Dropped({val})
            /\ ub' = (ub \/ ~live(data[s][index]))
            /\ UNCHANGED <<st, mask, data, pos>>

\* pub fn get_or_default(&mut self, index: usize) -> &mut T
\* self.get_or_else(index, Default::default): the producer makes a new value
get_or_default(s, index) ==
    /\ Callable(s, "live")
    /\ IF ~is_vacant_assert(index)
       THEN /\ last' = Op("get_or_default", s, index, 0, Panic)
            /\ UNCHANGED <<st, mask, data, pos, place, drops, ub>>
       ELSE IF is_vacant(mask[s], index)
       THEN /\ mask' = [mask EXCEPT ![s] = get_or_else_mask(mask[s], index)]
            /\ \E v \in Fresh :
                  /\ data' = [data EXCEPT ![s][index] = MaybeUninit_new(v)]
                  /\ place' = [place EXCEPT ![v] = "held"]
                  /\ last' = Op("get_or_default", s, index, v, Some(v))
            /\ UNCHANGED <<st, pos, drops, ub>>
       ELSE /\ \E g \in assume_init(data[s][index]) :
                  last' = Op("get_or_default", s, index, 0, Some(g))
            /\ ub' = (ub \/ ~live(data[s][index]))
            /\ UNCHANGED <<st, mask, data, pos, place, drops>>

\* the unconstructed cells the loop of Drop would read as values
drop_ub(m, d) == {i \in Slots : ~is_vacant(m, i) /\ ~live(d[i])}
\* the index at which the loop first does so (CAPACITY: it never does)
drop_stop(m, d) ==
    IF drop_ub(m, d) = {} THEN CAPACITY
    ELSE CHOOSE i \in drop_ub(m, d) : \A j \in drop_ub(m, d) : i <= j
\* what the loop reads there
drop_garbage(stop) == IF stop = CAPACITY THEN {Garbage} ELSE assume_init(Uninit)
\* What the loop `for i in 0..CAPACITY { self.remove(i); }` of Drop destroys
\* at index i: nothing at a vacant index, else the value remove(i) returns
\* (g when the cell is not constructed, where the loop is followed no further).
drop_reads(m, d, stop, g) ==
    [i \in Slots |-> IF is_vacant(m, i) \/ i > stop THEN Garbage
                     ELSE IF live(d[i]) THEN d[i] ELSE g]
drop_count(rd, v) == Cardinality({i \in Slots : rd[i] = v})
drop_drops(dr, rd) ==
    [v \in AllIds |-> IF dr[v] + drop_count(rd, v) < 2
                      THEN dr[v] + drop_count(rd, v) ELSE 2]
drop_place(pl, m, d, stop) ==
    [v \in AllIds |-> IF \E i \in Slots : ~is_vacant(m, i) /\ i < stop /\ d[i] = v
                      THEN "released" ELSE pl[v]]

\* impl<T> Drop for BlockN<T>
drop(s) ==
    /\ Callable(s, "live")
    /\ \E stop \in {drop_stop(mask[s], data[s])} :
          /\ \E g \in drop_garbage(stop) :
                \E rd \in {drop_reads(mask[s], data[s], stop, g)} :
                   drops' = drop_drops(drops, rd)
          /\ place' = drop_place(place, mask[s], data[s], stop)
          /\ ub' = (ub \/ stop < CAPACITY)
    /\ st' = [st EXCEPT ![s] = "gone"]
    /\ mask' = [mask EXCEPT ![s] = 0]
    /\ data' = [data EXCEPT ![s] = [i \in Slots |-> Uninit]]
    /\ last' = Op("drop", s, 0, 0, Unit)
    /\ UNCHANGED <<pos>>

\* block.mask = self.mask, done before any element is cloned
clone_mask(m) == m
\* the indices clone() has cloned when T::clone panics at index pj
\* (pj = CAPACITY: T::clone never panics)
clone_done(m, pj, i) == ~is_vacant(m, i) /\ i < pj
\* variant: the cells are copied bitwise instead of cloned
clone_data_bitwise(m, d, pj) ==
    [i \in Slots |-> IF clone_done(m, pj, i) /\ live(d[i])
                     THEN MaybeUninit_new(d[i]) ELSE Uninit]
\* block.data[idx] = MaybeUninit::new(data.clone())
clone_data(m, d, pj) ==
    [i \in Slots |-> IF clone_done(m, pj, i) /\ live(d[i])
                     THEN MaybeUninit_new(clone_of(d[i])) ELSE Uninit]
\* the ledger once the clones in the cells of d exist
clone_place(pl, d) ==
    [v \in AllIds |-> IF v \in CloneIds /\ \E i \in Slots : d[i] = v
                      THEN "held" ELSE pl[v]]

\* impl<T: Clone> Clone for BlockN<T>: store t becomes the clone of store s.
\* If T::clone panics, the unwinding drops the partly built block.
clone(s, t, pj) ==
    /\ Callable(s, "live")
    /\ st[t] = "none"
    /\ pj = CAPACITY \/ (pj \in Slots /\ ~is_vacant(mask[s], pj))
    /\ \A i \in Slots : clone_done(mask[s], pj, i) /\ live(data[s][i]) =>
          data[s][i] \in Ids /\ place[clone_of(data[s][i])] = "unborn"
    /\ \E m \in {clone_mask(mask[s])}, read_ub \in
            {\E i \in Slots : clone_done(mask[s], pj, i) /\ ~live(data[s][i])},
          d \in {clone_data(mask[s], data[s], pj)} :
           IF pj = CAPACITY
           THEN /\ st' = [st EXCEPT ![t] = "live"]
                /\ mask' = [mask EXCEPT ![t] = m]
                /\ data' = [data EXCEPT ![t] = d]
                /\ place' = clone_place(place, d)
                /\ ub' = (ub \/ read_ub)
                /\ last' = Op("clone", s, pj, 0, Unit)
                /\ UNCHANGED <<pos, drops>>
           ELSE \E stop \in {drop_stop(m, d)}, pl \in {clone_place(place, d)} :
                /\ \E g \in drop_garbage(stop) :
                      \E rd \in {drop_reads(m, d, stop, g)} :
                         drops' = drop_drops(drops, rd)
                /\ place' = drop_place(pl, m, d, stop)
                /\ ub' = (ub \/ read_ub \/ stop < CAPACITY)
                /\ last' = Op("clone", s, pj, 0, Panic)
                /\ UNCHANGED <<st, mask, data, pos>>

\* variant: without ManuallyDrop the block is dropped at the end of into_iter
into_iter_released_all(m, d) == {d[i] : i \in {j \in Slots : ~is_vacant(m, j) /\ live(d[j])}}
\* impl<T> IntoIterator for BlockN<T>: the block is wrapped in ManuallyDrop
\* (its Drop does not run) and its data and mask move into the iterator.
into_iter_released(m, d) == {}

into_iter(s) ==
    /\ Callable(s, "live")
    /\ st' = [st EXCEPT ![s] = "iter"]
    /\ pos' = [pos EXCEPT ![s] = 0]
    /\ drops' = Dropped(into_iter_released(mask[s], data[s]))
    /\ last' = Op("into_iter", s, 0, 0, Unit)
    /\ UNCHANGED <<mask, data, place, ub>>

\* if self.mask & (1 << i) != 0
next_occupied(m, i) == bit(m, i) # 0
\* variant: the loop stops at the last occupied index at or after the cursor
next_index_last(m, p) ==
    IF \E i \in Slots : i >= p /\ next_occupied(m, i)
    THEN CHOOSE i \in Slots : /\ i >= p /\ next_occupied(m, i)
                              /\ \A j \in Slots : (j >= p /\ next_occupied(m, j)) => i >= j
    ELSE CAPACITY
\* the index the loop of next() stops at: the first occupied one at or after
\* the cursor, or CAPACITY when self.iter.next() returns None
next_index(m, p) ==
    IF \E i \in Slots : i >= p /\ next_occupied(m, i)
    THEN CHOOSE i \in Slots : /\ i >= p /\ next_occupied(m, i)
                              /\ \A j \in Slots : (j >= p /\ next_occupied(m, j)) => i <= j
    ELSE CAPACITY
\* the iterator's mask after it has yielded index i (next() leaves it alone)
next_mask(m, i) == m

\* impl<T> Iterator for BlockNIntoIter<T>: fn next(&mut self) -> Option<T>
next(s) ==
    /\ Callable(s, "iter")
    /\ LET i == next_index(mask[s], pos[s])
       IN  IF i = CAPACITY
           THEN /\ pos' = [pos EXCEPT ![s] = CAPACITY]
                /\ last' = Op("next", s, i, 0, None)
                /\ UNCHANGED <<st, mask, data, place, drops, ub>>
           ELSE LET item == data[s][i]
                IN  /\ pos' = [pos EXCEPT ![s] = i + 1]
                    /\ data' = [data EXCEPT ![s][i] = Uninit]
                    /\ mask' = [mask EXCEPT ![s] = next_mask(mask[s], i)]
                    /\ \E g \in assume_init(item) :
                          last' = Op("next", s, i, 0, Some(g))
                    /\ place' = [v \in AllIds |->
                          IF live(item) /\ v = item THEN "caller" ELSE place[v]]
                    /\ ub' = (ub \/ ~live(item))
                    /\ UNCHANGED <<st, drops>>

\* What dropping a BlockNIntoIter destroys: the type has no Drop of its own,
\* and array::IntoIter<MaybeUninit<T>> drops its remaining cells, which runs
\* no destructor of T.
into_iter_drop_released(m, d, p) == {}

\* the iterator goes out of scope
drop_into_iter(s) ==
    /\ Callable(s, "iter")
    /\ LET D == into_iter_drop_released(mask[s], data[s], pos[s])
       IN  /\ drops' = Dropped(D)
           /\ place' = [v \in AllIds |-> IF v \in D THEN "released" ELSE place[v]]
    /\ st' = [st EXCEPT ![s] = "gone"]
    /\ mask' = [mask EXCEPT ![s] = 0]
    /\ data' = [data EXCEPT ![s] = [i \in Slots |-> Uninit]]
    /\ pos' = [pos EXCEPT ![s] = 0]
    /\ last' = Op("drop_into_iter", s, 0, 0, Unit)
    /\ UNCHANGED ub

\* variant: absence is passed on instead of panicking
expect_lenient(r) == r
\* The sequences of pairs given to from_iter: the k-th pair is (idxs[k], k),
\* its value being the k-th new value of the caller.
PairSeqs == UNION {[1 .. n -> Indices] : n \in 0 .. MaxIds}
\* let mut block = Self::default()
from_iter_default ==
    [mask |-> 0, data |-> [i \in Slots |-> Uninit], released |-> {}]
\* variant: a pair whose index is already occupied is skipped and its value dropped
from_iter_step_keep(blk, idx, val) ==
    IF is_vacant(blk.mask, idx)
    THEN [mask |-> insert_mask(blk.mask, idx),
          data |-> insert_data(blk.data, idx, val),
          released |-> blk.released]
    ELSE [blk EXCEPT !.released = @ \cup {val}]
\* block.insert(idx, val): the value insert returns is dropped at once
from_iter_step(blk, idx, val) ==
    [mask |-> insert_mask(blk.mask, idx),
     data |-> insert_data(blk.data, idx, val),
     released |-> IF is_vacant(blk.mask, idx) THEN blk.released
                  ELSE blk.released \cup {blk.data[idx]}]
\* for (idx, val) in iter { block.insert(idx, val); }, from the k-th pair on
RECURSIVE from_iter_loop(_, _, _)
from_iter_loop(blk, idxs, k) ==
    IF k > Len(idxs) THEN blk
    ELSE from_iter_loop(from_iter_step(blk, idxs[k], k), idxs, k + 1)

\* impl<T> FromIterator<(usize, T)> for BlockN<T>.  An index out of range
\* makes insert panic: the block built so far, the value in hand and the
\* values the iterator still owns are dropped in the unwinding.
from_iter(s, idxs) ==
    /\ st[s] = "none"
    /\ \A k \in 1 .. Len(idxs) : place[k] = "unborn"
    /\ IF \E k \in 1 .. Len(idxs) : ~is_vacant_assert(idxs[k])
       THEN /\ place' = [v \in AllIds |-> IF v \in 1 .. Len(idxs) THEN "released" ELSE place[v]]
            /\ drops' = Dropped(1 .. Len(idxs))
            /\ last' = Op("from_iter", s, 0, idxs, Panic)
            /\ UNCHANGED <<st, mask, data, pos, ub>>
       ELSE \E blk \in {from_iter_loop(from_iter_default, idxs, 1)} :
            /\ st' = [st EXCEPT ![s] = "live"]
            /\ mask' = [mask EXCEPT ![s] = blk.mask]
            /\ data' = [data EXCEPT ![s] = blk.data]
            /\ place' = [v \in AllIds |->
                  IF v \in blk.released THEN "released"
                  ELSE IF v \in 1 .. Len(idxs) THEN "held" ELSE place[v]]
            /\ drops' = Dropped(blk.released)
            /\ last' = Op("from_iter", s, 0, idxs, Unit)
            /\ UNCHANGED <<pos, ub>>

\* Option::expect
expect(r) == IF r = None THEN Panic ELSE r

\* impl<T> Index<usize> for BlockN<T>: self.get(idx).expect("slot is vacant")
index(s, idx) ==
    /\ Callable(s, "live")
    /\ IF ~is_vacant_assert(idx)
       THEN /\ last' = Op("index", s, idx, 0, Panic)
            /\ UNCHANGED <<st, mask, data, pos, place, drops, ub>>
       ELSE IF is_vacant(mask[s], idx)
       THEN /\ last' = Op("index", s, idx, 0, expect(None))
            /\ UNCHANGED <<st, mask, data, pos, place, drops, ub>>
       ELSE /\ \E g \in assume_init(data[s][idx]) :
                  last' = Op("index", s, idx, 0, expect(Some(g)))
            /\ ub' = (ub \/ ~live(data[s][idx]))
            /\ UNCHANGED <<st, mask, data, pos, place, drops>>

\* A write of w through a reference to slot i, whose value read as g is
\* destroyed by the assignment (w = Garbage: the caller only reads).
write_through(s, i, g, w) ==
    /\ drops' = IF w = Garbage THEN drops ELSE Dropped({g})
    /\ data' = IF w = Garbage THEN data
               ELSE [data EXCEPT ![s][i] = MaybeUninit_new(w)]
    /\ place' = [v \in AllIds |->
          IF w = Garbage THEN place[v]
          ELSE IF v = w THEN "held"
          ELSE IF live(data[s][i]) /\ v = data[s][i] THEN "released"
          ELSE place[v]]
    /\ ub' = (ub \/ ~live(data[s][i]))

\* impl<T> IndexMut<usize> for BlockN<T>: self.get_mut(idx).expect("slot is vacant")
index_mut(s, idx, w) ==
    /\ Callable(s, "live")
    /\ IF ~is_vacant_assert(idx) \/ is_vacant(mask[s], idx)
       THEN /\ w = Garbage
            /\ last' = Op("index_mut", s, idx, w,
                          IF ~is_vacant_assert(idx) THEN Panic ELSE expect(None))
            /\ UNCHANGED <<st, mask, data, pos, place, drops, ub>>
       ELSE /\ \E g \in assume_init(data[s][idx]) :
                  /\ last' = Op("index_mut", s, idx, w, expect(Some(g)))
                  /\ write_through(s, idx, g, w)
            /\ UNCHANGED <<st, mask, pos>>

\* first_occupied / last_occupied (name says which; r is the result of the
\* bit scan): Some(get_unchecked(index)) or None
occupied_ref(s, name, r) ==
    /\ Callable(s, "live")
    /\ IF r = None
       THEN /\ last' = Op(name, s, CAPACITY, 0, None)
            /\ UNCHANGED <<st, mask, data, pos, place, drops, ub>>
       ELSE /\ \E g \in assume_init(data[s][r.val]) :
                  last' = Op(name, s, r.val, 0, Some(g))
            /\ ub' = (ub \/ ~live(data[s][r.val]))
            /\ UNCHANGED <<st, mask, data, pos, place, drops>>
first_occupied(s) == occupied_ref(s, "first_occupied", lowest_occupied_index(mask[s]))
last_occupied(s) == occupied_ref(s, "last_occupied", highest_occupied_index(mask[s]))

\* first_occupied_mut / last_occupied_mut: Some(get_unchecked_mut(index)) or
\* None; the caller may write w through the reference
occupied_mut(s, name, r, w) ==
    /\ Callable(s, "live")
    /\ IF r = None
       THEN /\ w = Garbage
            /\ last' = Op(name, s, CAPACITY, w, None)
            /\ UNCHANGED <<st, mask, data, pos, place, drops, ub>>
       ELSE /\ \E g \in assume_init(data[s][r.val]) :
                  /\ last' = Op(name, s, r.val, w, Some(g))
                  /\ write_through(s, r.val, g, w)
            /\ UNCHANGED <<st, mask, pos>>
first_occupied_mut(s, w) ==
    occupied_mut(s, "first_occupied_mut", lowest_occupied_index(mask[s]), w)
last_occupied_mut(s, w) ==
    occupied_mut(s, "last_occupied_mut", highest_occupied_index(mask[s]), w)

\* insert_at_first_vacancy / insert_at_last_vacancy (r is the result of the
\* bit scan): Ok(self.insert(index, value)) or Err(value)
insert_at_vacancy(s, name, r, value) ==
    /\ Callable(s, "live")
    /\ IF r = None
       THEN /\ last' = Op(name, s, CAPACITY, value, Err(value))
            /\ place' = [place EXCEPT ![value] = "caller"]
            /\ UNCHANGED <<st, mask, data, pos, drops, ub>>
       ELSE \E i \in {r.val}, vacant \in {is_vacant(mask[s], r.val)} :
            /\ data' = [data EXCEPT ![s] = insert_data(data[s], i, value)]
            /\ mask' = [mask EXCEPT ![s] = insert_mask(mask[s], i)]
            /\ \E g \in (IF vacant THEN {Garbage} ELSE assume_init(data[s][i])) :
                  /\ last' = Op(name, s, i, value, Ok(insert_result(vacant, g)))
                  /\ place' = [v \in AllIds |->
                        IF v = value THEN "held"
                        ELSE IF ~vacant /\ live(data[s][i]) /\ v = data[s][i] THEN "caller"
                        ELSE place[v]]
            /\ ub' = (ub \/ (~vacant /\ ~live(data[s][i])))
            /\ UNCHANGED <<st, pos, drops>>
insert_at_first_vacancy(s, value) ==
    insert_at_vacancy(s, "insert_at_first_vacancy", lowest_vacant_index(mask[s]), value)
insert_at_last_vacancy(s, value) ==
    insert_at_vacancy(s, "insert_at_last_vacancy", highest_vacant_index(mask[s]), value)

\* The record of a call of a borrowing iterator that has yielded yielded; idx
\* is the index of the item, or the cursor at the call when there is none.
IterOp(name, s, idx, arg, res, yielded) ==
    [Op(name, s, idx, arg, res) EXCEPT !.pre = yielded]

\* pub fn iter(&self) -> BlockNIter<'_, T>.  The store is borrowed as long as
\* the iterator lives, so mask[s] is also the iterator's copy of the mask and
\* pos[s] the number of cells its slice iterator has passed.
iter(s) ==
    /\ Callable(s, "live")
    /\ st' = [st EXCEPT ![s] = "ref"]
    /\ pos' = [pos EXCEPT ![s] = 0]
    /\ last' = IterOp("iter", s, 0, 0, Unit, << >>)
    /\ UNCHANGED <<mask, data, place, drops, ub>>

\* variant: an exhausted iterator starts again at index 0
iter_next_index_wrap(m, p) ==
    IF \E i \in Slots : (p >= CAPACITY \/ i >= p) /\ bit(m, i) # 0
    THEN CHOOSE i \in Slots :
           /\ (p >= CAPACITY \/ i >= p) /\ bit(m, i) # 0
           /\ \A j \in Slots : ((p >= CAPACITY \/ j >= p) /\ bit(m, j) # 0) => i <= j
    ELSE CAPACITY
\* variant: the loop returns the cell at the cursor whether occupied or not
iter_next_index_all(m, p) == IF p >= CAPACITY THEN CAPACITY ELSE p
\* The loop of BlockNIter::next: take cells from the cursor p on until one has
\* its bit set in the mask (CAPACITY: self.iter.next() returned None).
RECURSIVE iter_next_index(_, _)
iter_next_index(m, p) ==
    IF p >= CAPACITY THEN CAPACITY
    ELSE IF bit(m, p) # 0 THEN p
    ELSE iter_next_index(m, p + 1)

\* impl<'a, T> Iterator for BlockNIter<'a, T>: fn next(&mut self) -> Option<&'a T>
iter_next(s) ==
    /\ Callable(s, "ref")
    /\ \E i \in {iter_next_index(mask[s], pos[s])} :
          IF i = CAPACITY
          THEN /\ pos' = [pos EXCEPT ![s] = CAPACITY]
               /\ last' = IterOp("iter_next", s, pos[s], 0, None, last.pre)
               /\ UNCHANGED ub
          ELSE /\ pos' = [pos EXCEPT ![s] = i + 1]
               /\ \E g \in assume_init(data[s][i]) :
                     last' = IterOp("iter_next", s, i, 0, Some(g), Append(last.pre, g))
               /\ ub' = (ub \/ ~live(data[s][i]))
    /\ UNCHANGED <<st, mask, data, place, drops>>

\* pub fn iter_mut(&mut self) -> BlockNIterMut<'_, T>
iter_mut(s) ==
    /\ Callable(s, "live")
    /\ st' = [st EXCEPT ![s] = "mut"]
    /\ pos' = [pos EXCEPT ![s] = 0]
    /\ last' = IterOp("iter_mut", s, 0, 0, Unit, << >>)
    /\ UNCHANGED <<mask, data, place, drops, ub>>

\* variant: the loop yields the cell before the cursor again, if there is one
iter_mut_next_index_again(m, p) ==
    IF p >= CAPACITY THEN CAPACITY
    ELSE IF p > 0 /\ bit(m, p - 1) # 0 THEN p - 1
    ELSE IF bit(m, p) # 0 THEN p
    ELSE CAPACITY
\* The loop of BlockNIterMut::next, as that of BlockNIter::next.
RECURSIVE iter_mut_next_index(_, _)
iter_mut_next_index(m, p) ==
    IF p >= CAPACITY THEN CAPACITY
    ELSE IF bit(m, p) # 0 THEN p
    ELSE iter_mut_next_index(m, p + 1)

\* impl<'a, T> Iterator for BlockNIterMut<'a, T>:
\* fn next(&mut self) -> Option<&'a mut T>, and the caller's write `*r = w`
\* through the reference it yields (w = Garbage: no write).
iter_mut_next(s, w) ==
    /\ Callable(s, "mut")
    /\ \E i \in {iter_mut_next_index(mask[s], pos[s])} :
          IF i = CAPACITY
          THEN /\ w = Garbage
               /\ pos' = [pos EXCEPT ![s] = CAPACITY]
               /\ last' = IterOp("iter_mut_next", s, pos[s], w, None, last.pre)
               /\ UNCHANGED <<data, place, drops, ub>>
          ELSE /\ pos' = [pos EXCEPT ![s] = i + 1]
               /\ \E g \in assume_init(data[s][i]) :
                     /\ last' = IterOp("iter_mut_next", s, i, w, Some(g), Append(last.pre, g))
                     /\ write_through(s, i, g, w)
    /\ UNCHANGED <<st, mask>>

\* A borrowing iterator goes out of scope: the borrow of the store ends.
drop_iter(s) ==
    /\ ~ub /\ st[s] \in {"ref", "mut"}
    /\ st' = [st EXCEPT ![s] = "live"]
    /\ pos' = [pos EXCEPT ![s] = 0]
    /\ last' = Op("drop_iter", s, 0, 0, Unit)
    /\ UNCHANGED <<mask, data, place, drops, ub>>

Init ==
    /\ st = [s \in Stores |-> "none"]
    /\ mask = [s \in Stores |-> 0]
    /\ data = [s \in Stores |-> [i \in Slots |-> Uninit]]
    /\ pos = [s \in Stores |-> 0]
    /\ place = [v \in AllIds |-> "unborn"]
    /\ drops = [v \in AllIds |-> 0]
    /\ ub = FALSE
    /\ last = [op |-> "init", s |-> 0, idx |-> 0, arg |-> 0, res |-> Unit,
               pre |-> Garbage]

\* The caller builds store 1, calls every operation on it, and in the end
\* drops it or turns it into an owning iterator.
Next ==
    \/ new(1)
    \/ from(1)
    \/ \E i \in Indices, v \in Args : insert(1, i, v)
    \/ \E i \in Indices : remove(1, i)
    \/ \E i \in Indices : call_is_vacant(1, i)
    \/ \E i \in Indices : get(1, i)
    \/ \E i \in Indices, w \in {Garbage} \cup Args : get_mut(1, i, w)
    \/ \E i \in Indices, f \in {"value", "panic"} : get_or_else(1, i, f)
    \/ drop(1)
    \/ into_iter(1)
    \/ next(1)
    \/ drop_into_iter(1)

Spec == Init /\ [][Next]_vars

\* The caller builds store 1 with insert, remove and the vacancy inserts, and
\* calls the getters, the bit scans, the first/last lookups and the indexing
\* operators on it.
NextScan ==
    \/ new(1)
    \/ from(1)
    \/ \E i \in Slots, v \in Fresh : insert(1, i, v)
    \/ \E i \in Slots : remove(1, i)
    \/ \E i \in Slots, f \in {"value", "panic"} : get_or_else(1, i, f)
    \/ \E which \in Getters : call_getter(1, which)
    \/ \E i \in Slots : get(1, i)
    \/ \E i \in Indices : index(1, i)
    \/ \E i \in Indices, w \in {Garbage} \cup Fresh : index_mut(1, i, w)
    \/ first_occupied(1)
    \/ last_occupied(1)
    \/ \E w \in {Garbage} \cup Fresh : first_occupied_mut(1, w)
    \/ \E w \in {Garbage} \cup Fresh : last_occupied_mut(1, w)
    \/ \E v \in Args \cup SpareArgs(1) : insert_at_first_vacancy(1, v)
    \/ \E v \in Args \cup SpareArgs(1) : insert_at_last_vacancy(1, v)

SpecScan == Init /\ [][NextScan]_vars

\* The caller fills store 1 through get_or_else, get_or and get_or_default.
NextGetOr ==
    \/ new(1)
    \/ from(1)
    \/ \E i \in Slots, v \in Fresh : insert(1, i, v)
    \/ \E i \in Slots : remove(1, i)
    \/ \E i \in Slots : get(1, i)
    \/ \E i \in Indices, f \in {"value", "panic"} : get_or_else(1, i, f)
    \/ \E i \in Indices, v \in Args : get_or(1, i, v)
    \/ \E i \in Indices : get_or_default(1, i)
    \/ drop(1)

SpecGetOr == Init /\ [][NextGetOr]_vars

\* The caller collects a sequence of pairs into store 1, or builds the store
\* with new and insert, and then reads, drains and drops it.
NextFromIter ==
    \/ \E idxs \in PairSeqs : from_iter(1, idxs)
    \/ new(1)
    \/ \E i \in Slots, v \in Fresh : insert(1, i, v)
    \/ \E i \in Slots : get(1, i)
    \/ \E i \in Slots : remove(1, i)
    \/ drop(1)

SpecFromIter == Init /\ [][NextFromIter]_vars

\* Iterator::collect: the items next() returns until it returns None, for the
\* shared, the mutable and the owning iterator with mask m over the cells d,
\* the cursor being at p.
RECURSIVE iter_collect(_, _, _), iter_mut_collect(_, _, _), into_iter_collect(_, _, _)
iter_collect(m, d, p) ==
    IF iter_next_index(m, p) = CAPACITY THEN << >>
    ELSE <<d[iter_next_index(m, p)]>> \o iter_collect(m, d, iter_next_index(m, p) + 1)
iter_mut_collect(m, d, p) ==
    IF iter_mut_next_index(m, p) = CAPACITY THEN << >>
    ELSE <<d[iter_mut_next_index(m, p)]>>
            \o iter_mut_collect(m, d, iter_mut_next_index(m, p) + 1)
into_iter_collect(m, d, p) ==
    IF next_index(m, p) = CAPACITY THEN << >>
    ELSE <<d[next_index(m, p)]>> \o into_iter_collect(m, d, next_index(m, p) + 1)

\* ----------------------------------------------------------- memory layout
\* the widths the macro is instantiated with: Block8 .. Block128
Widths == {8, 16, 32, 64, 128}
\* the element types T, by layout: the alignment is a power of two and the
\* size a multiple of it (0: a zero-sized type)
Aligns == {1, 2, 4, 8, 16}
Units == 0 .. 4
\* size and alignment of the mask integer of width N (the alignment of u128
\* is 8 or 16, depending on the target and the compiler)
mask_size(N) == N \div 8
mask_align(N) == IF N = 128 THEN {8, 16} ELSE {N \div 8}
round_up(n, a) == ((n + a - 1) \div a) * a
\* size_of of struct BlockN<T> { data: [MaybeUninit<T>; N], mask: int }: the
\* two fields, the one of greater alignment first, and the padding that makes
\* the size a multiple of the alignment of the struct.
size_of_block(N, sizeT, alignT, alignM) ==
    round_up(N * sizeT + mask_size(N), IF alignT > alignM THEN alignT ELSE alignM)

\* core::mem::size_of::<BlockN<T>>() for a T of k units of alignment a
size_of(N, k, a) ==
    /\ \E am \in mask_align(N) :
          last' = Op("size_of", N, k * a, a, Num(size_of_block(N, k * a, a, am)))
    /\ UNCHANGED <<st, mask, data, pos, place, drops, ub>>

NextSize == \E N \in Widths, k \in Units, a \in Aligns : size_of(N, k, a)

SpecSize == Init /\ [][NextSize]_vars

\* The caller builds store 1 and walks it with a shared, a mutable or an
\* owning iterator.
NextIter ==
    \/ new(1)
    \/ from(1)
    \/ \E i \in Slots, v \in Fresh : insert(1, i, v)
    \/ \E i \in Slots : remove(1, i)
    \/ \E i \in Slots, f \in {"value", "panic"} : get_or_else(1, i, f)
    \/ iter(1)
    \/ iter_next(1)
    \/ iter_mut(1)
    \/ \E w \in {Garbage} \cup Fresh : iter_mut_next(1, w)
    \/ drop_iter(1)
    \/ into_iter(1)
    \/ next(1)
    \/ drop_into_iter(1)

SpecIter == Init /\ [][NextIter]_vars

\* The caller builds store 1 from new values, takes a clone of it as store 2,
\* and then drains and drops the two stores in any order.
NextClone ==
    \/ new(1)
    \/ from(1)
    \/ st[2] = "none" /\ \E i \in Slots, v \in Fresh : insert(1, i, v)
    \/ st[2] = "none" /\ \E i \in Slots, f \in {"value", "panic"} : get_or_else(1, i, f)
    \/ \E pj \in Indices : clone(1, 2, pj)
    \/ \E s \in Stores, i \in Slots : remove(s, i)
    \/ \E s \in Stores : drop(s)

SpecClone == Init /\ [][NextClone]_vars

\* ------------------------------------------------------------------ claims
\* The mask/slot invariant of store s: bit i is set iff slot i is constructed.
WellFormed(s) == \A i \in Slots : (bit(mask[s], i) = 1) <=> live(data[s][i])

\* C1: after any sequence of public operations, in every store bit i of the
\* mask is set iff slot i holds a constructed value, and no operation has read
\* an unconstructed slot as a value.
C1_MaskIffConstructed ==
    /\ \A s \in Stores : st[s] = "live" => WellFormed(s)
    /\ ~ub

\* C6: an operation that fails (panics) leaves the mask and the slots of every
\* store as they were before the call.
C6_FailedCallChangesNothing ==
    [][last'.res = Panic => (mask' = mask /\ data' = data)]_vars

\* The operations that take an index.
C7_Ops == {"is_vacant", "get", "get_mut", "insert", "remove", "get_or_else"}
\* C7: is_vacant, get, get_mut, insert, remove and get_or_else called with an
\* index >= CAPACITY panic, and the mask and the slots are unchanged.
C7_OutOfRangePanics ==
    [][(last' # last /\ last'.op \in C7_Ops /\ last'.idx >= CAPACITY)
          => (last'.res = Panic /\ mask' = mask /\ data' = data)]_vars
C7_Witness ==
    /\ last.op = "insert" /\ last.idx >= CAPACITY /\ last.res = Panic
    /\ st[1] = "live" /\ mask[1] # 0

\* A value is leaked when the ledger says a store holds it and no slot does.
Leaked(v) == place[v] = "held" /\ \A s \in Stores, i \in Slots : data[s][i] # v

\* C2: when a store has been destroyed, every value it held has been destroyed
\* exactly once: none is leaked, none has been destroyed twice, and no value
\* the caller owns (returned by remove or by a replacing insert) has been
\* destroyed.
C2_DropDestroysHeldOnce ==
    last.op = "drop" =>
        \A v \in AllIds : /\ ~Leaked(v)
                          /\ drops[v] <= 1
                          /\ place[v] = "caller" => drops[v] = 0

\* C3: when an owning iterator has been discarded, every value it had not
\* yielded has been released (none is leaked), and none twice.
C3_DiscardedIterReleasesRest ==
    last.op = "drop_into_iter" =>
        \A v \in AllIds : /\ ~Leaked(v)
                          /\ drops[v] <= 1
                          /\ place[v] = "caller" => drops[v] = 0

\* C4: turning a store into an owning iterator releases nothing; every step
\* of the iterator yields the value of the next occupied index, never a vacant
\* one, and hands it to the caller without releasing it; when the iterator is
\* exhausted every value the store held is with the caller; and discarding
\* the exhausted iterator releases nothing.
C4_FullConsumption ==
    [][/\ last'.op = "into_iter" => (drops' = drops /\ place' = place)
       /\ (last'.op = "next" /\ last'.res.tag = "some") =>
             /\ last'.idx >= pos[1] /\ pos'[1] = last'.idx + 1
             /\ ~is_vacant(mask[1], last'.idx)
             /\ \A j \in Slots : (pos[1] <= j /\ j < last'.idx) => is_vacant(mask[1], j)
             /\ live(data[1][last'.idx]) =>
                   /\ last'.res.val = data[1][last'.idx]
                   /\ place[last'.res.val] = "held"
                   /\ place' = [place EXCEPT ![last'.res.val] = "caller"]
             /\ drops' = drops
       /\ (last'.op = "next" /\ last'.res = None) =>
             /\ \A v \in AllIds : place'[v] # "held"
             /\ drops' = drops /\ place' = place
       /\ (last'.op = "drop_into_iter" /\ next_index(mask[1], pos[1]) = CAPACITY) =>
             (drops' = drops /\ place' = place)
      ]_vars
C4_Witness ==
    /\ last.op = "next" /\ last.res = None
    /\ mask[1] # MAX
    /\ Cardinality({v \in AllIds : place[v] = "caller"}) >= 2

\* C8: insert(i, v) with i < CAPACITY leaves slot i occupied, holding v; it
\* returns none if slot i was vacant, and if slot i held a value it returns
\* that value to the caller: the value is released by nobody and is in no slot
\* of the store any more.  As long as it is with the caller it stays out of
\* every slot, and no store releases it unless an unconstructed slot has been
\* read as a value.
C8_InsertReplaces ==
    /\ [](\A v \in AllIds : place[v] = "caller" =>
            /\ \A s \in Stores, j \in Slots : data[s][j] # v
            /\ ~ub => drops[v] = 0)
    /\ [][(last'.op = "insert" /\ last'.res # Panic) =>
           \E s \in {last'.s}, i \in {last'.idx}, v \in {last'.arg} :
             /\ ~is_vacant(mask'[s], i)
             /\ data'[s][i] = v
             /\ is_vacant(mask[s], i) => last'.res = None
             /\ (~is_vacant(mask[s], i) /\ live(data[s][i])) =>
                   /\ last'.res = Some(data[s][i])
                   /\ place'[data[s][i]] = "caller"
                   /\ drops' = drops
                   /\ \A j \in Slots : data'[s][j] # data[s][i]
         ]_vars
C8_Witness ==
    /\ last.op = "insert" /\ last.res.tag = "some"
    /\ place[last.res.val] = "caller" /\ drops[last.res.val] = 0
    /\ data[1][last.idx] = last.arg

\* C9: remove(i) called right after insert(i, v) returns some(v), and then
\* slot i is vacant: is_vacant(i) is true and get(i) is none.
C9_RoundTrip ==
    (last.op = "remove" /\ last.pre # Garbage) =>
        /\ last.res = Some(last.pre)
        /\ is_vacant(mask[last.s], last.idx)
        /\ ~live(data[last.s][last.idx])
        /\ place[last.pre] = "caller"
C9_Witness ==
    /\ last.op = "remove" /\ last.pre # Garbage /\ last.res.tag = "some"
    /\ mask[1] # 0

\* C10: remove(i) on a vacant slot returns none and changes nothing; on an
\* occupied slot it clears bit i and changes no other bit and no other slot.
C10_RemoveFrame ==
    [][(last'.op = "remove" /\ last'.res # Panic) =>
        \E s \in {last'.s}, i \in {last'.idx} :
          IF is_vacant(mask[s], i)
          THEN last'.res = None /\ mask' = mask /\ data' = data
                  /\ place' = place /\ drops' = drops
          ELSE /\ is_vacant(mask'[s], i)
               /\ \A j \in Slots \ {i} :
                     /\ is_vacant(mask'[s], j) <=> is_vacant(mask[s], j)
                     /\ data'[s][j] = data[s][j]
               /\ \A t \in Stores \ {s} : mask'[t] = mask[t] /\ data'[t] = data[t]
      ]_vars
C10_Witness ==
    /\ last.op = "remove" /\ last.res.tag = "some"
    /\ count_ones(mask[last.s]) >= 2

Occupied(s) == {i \in Slots : ~is_vacant(mask[s], i)}
Held(s) == {data[s][i] : i \in Occupied(s)}

\* C5: cloning a store whose occupied slots all hold constructed values gives
\* a store with the same mask whose occupied slots hold fresh clones of the
\* source's values at the same indices and whose vacant slots hold nothing;
\* exactly len() values come to life, nothing is released and the source is
\* unchanged.  Destroying either store afterwards releases exactly the len()
\* values of that store, once each, and leaves the other store's values alone.
C5_CloneIndependence ==
    [][/\ (last'.op = "clone" /\ last'.res = Unit /\ WellFormed(1)) =>
             /\ mask'[2] = mask[1]
             /\ \A i \in Slots :
                   IF is_vacant(mask[1], i)
                   THEN ~live(data'[2][i])
                   ELSE /\ data'[2][i] = clone_of(data[1][i])
                        /\ place[data'[2][i]] = "unborn"
                        /\ \A j \in Slots : data[1][j] # data'[2][i]
             /\ Cardinality({v \in AllIds : place'[v] # place[v]}) = len(mask[1])
             /\ \A v \in AllIds : place'[v] # place[v] => place'[v] = "held"
             /\ drops' = drops
             /\ mask'[1] = mask[1] /\ data'[1] = data[1]
             /\ ~ub'
       /\ \A s \in Stores : (last'.op = "drop" /\ last'.s = s /\ WellFormed(s)) =>
             /\ Cardinality(Held(s)) = len(mask[s])
             /\ \A v \in AllIds :
                   IF v \in Held(s)
                   THEN drops[v] = 0 /\ drops'[v] = 1 /\ place'[v] = "released"
                   ELSE drops'[v] = drops[v] /\ place'[v] = place[v]
             /\ \A t \in Stores \ {s} :
                   /\ mask'[t] = mask[t] /\ data'[t] = data[t]
                   /\ (st[t] = "live" /\ WellFormed(t)) => Held(t) \cap Held(s) = {}
             /\ ~ub'
      ]_vars
C5_Witness ==
    /\ last.op = "drop" /\ last.s = 1
    /\ st[2] = "live" /\ len(mask[2]) >= 2 /\ mask[2] # MAX
    /\ \A i \in Occupied(2) : place[data[2][i]] = "held" /\ data[2][i] \in CloneIds

\* The indices of store s whose bit is set.
SetBits(m) == {i \in Slots : ~is_vacant(m, i)}

\* C11: in every state len() is the number of set bits of the mask (the
\* number of indices that are not vacant), it lies in 0..CAPACITY, and
\* is_empty() is true exactly when len() is 0; the calls return these values.
C11_LenCountsBits ==
    /\ \A s \in Stores : st[s] = "live" =>
          /\ len(mask[s]) = Cardinality(SetBits(mask[s]))
          /\ 0 <= len(mask[s]) /\ len(mask[s]) <= CAPACITY
          /\ is_empty(mask[s]) <=> len(mask[s]) = 0
    /\ last.op = "len" => last.res = Num(Cardinality(SetBits(mask[last.s])))
    /\ last.op = "is_empty" => last.res = Bool(SetBits(mask[last.s]) = {})
C11_Witness ==
    /\ last.op = "len" /\ last.res = Num(2)
    /\ ~is_vacant(mask[1], 0) /\ is_vacant(mask[1], 1)

\* The calls that look up an occupied slot, and the calls that can occupy one.
C12_Lookups == {"lowest_occupied_index", "highest_occupied_index", "first_occupied",
                "last_occupied", "first_occupied_mut", "last_occupied_mut"}
C12_Touching == {"insert", "get_or_else", "insert_at_first_vacancy",
                 "insert_at_last_vacancy"}
\* C12: a store just made by new has mask 0, len() 0 and only vacant,
\* unconstructed slots; on an empty store the occupied lookups return none;
\* get on a vacant index returns none; and a vacant index of a live store
\* becomes occupied only by an insert, a get_or_else or a vacancy insert at
\* that index.
C12_UntouchedStaysVacant ==
    /\ [](/\ last.op = "new" =>
               /\ mask[last.s] = 0 /\ len(mask[last.s]) = 0
               /\ \A i \in Slots : is_vacant(mask[last.s], i) /\ ~live(data[last.s][i])
          /\ (last.op \in C12_Lookups /\ mask[last.s] = 0) => last.res = None
          /\ (last.op = "get" /\ last.idx < CAPACITY /\ is_vacant(mask[last.s], last.idx))
                => last.res = None)
    /\ [][\A s \in Stores, i \in Slots :
             (st[s] = "live" /\ is_vacant(mask[s], i) /\ ~is_vacant(mask'[s], i)) =>
                 (last'.op \in C12_Touching /\ last'.s = s /\ last'.idx = i)
         ]_vars
C12_Witness ==
    /\ last.op = "get" /\ last.res = None
    /\ mask[1] # 0 /\ is_vacant(mask[1], last.idx)

C13_Ops == {"get_or_else", "get_or", "get_or_default"}
\* C13: get_or_else(i, producer) with i < CAPACITY on a vacant slot calls the
\* producer once, stores the value it made in slot i, sets bit i and returns
\* that value, destroying nothing and changing no other slot; on a slot
\* holding a value it returns that value, does not call the producer and
\* changes neither the mask nor any slot nor any value the store holds.
\* get_or_default does the same with a new default value, and get_or with the
\* value it is given.
C13_GetOrElse ==
    [][(last'.op \in C13_Ops /\ last'.idx < CAPACITY /\ last'.res # Panic) =>
        \E s \in {last'.s}, i \in {last'.idx} :
          IF is_vacant(mask[s], i)
          THEN /\ mask'[s] = bitor(mask[s], i) /\ ~is_vacant(mask'[s], i)
               /\ last'.res.tag = "some" /\ last'.res.val \in AllIds
               /\ data'[s] = [data[s] EXCEPT ![i] = last'.res.val]
               /\ drops' = drops
               /\ place' = [place EXCEPT ![last'.res.val] = "held"]
               /\ IF last'.op = "get_or"
                  THEN last'.res.val = last'.arg
                  ELSE place[last'.res.val] = "unborn"
          ELSE live(data[s][i]) =>
               /\ last'.res = Some(data[s][i])
               /\ mask' = mask /\ data' = data
               /\ \A v \in AllIds : (place[v] = "unborn" /\ place'[v] # "unborn") =>
                     (last'.op = "get_or" /\ v = last'.arg)
               /\ \A v \in AllIds : place[v] = "held" =>
                     (place'[v] = "held" /\ drops'[v] = drops[v])
      ]_vars
C13_Witness ==
    /\ last.op = "get_or_default" /\ last.res.tag = "some"
    /\ last.arg = Garbage /\ live(data[1][last.idx])
    /\ \E i \in Slots : data[1][i] # Uninit /\ i # last.idx

\* C14: store[i] and a mutable store[i] with i < CAPACITY on a slot holding a
\* value yield that value, the same as the get(i) called just before
\* yielded; on a vacant slot they panic, and the mask, the slots and the
\* values are as before.
C14_IndexOperators ==
    [][(last'.op \in {"index", "index_mut"} /\ last'.idx < CAPACITY) =>
        \E s \in {last'.s}, i \in {last'.idx} :
          /\ IF is_vacant(mask[s], i)
             THEN /\ last'.res = Panic
                  /\ mask' = mask /\ data' = data
                  /\ place' = place /\ drops' = drops
             ELSE live(data[s][i]) =>
                  /\ last'.res = Some(data[s][i])
                  /\ mask' = mask
                  /\ last'.arg = Garbage => (data' = data /\ drops' = drops)
          /\ (last.op = "get" /\ last.s = s /\ last.idx = i) =>
                last'.res = (IF last.res = None THEN Panic ELSE last.res)
      ]_vars
C14_Witness ==
    /\ last.op = "index" /\ last.idx < CAPACITY /\ last.res = Panic
    /\ mask[1] # 0 /\ is_vacant(mask[1], last.idx)

Min(S) == CHOOSE i \in S : \A j \in S : i <= j
Max(S) == CHOOSE i \in S : \A j \in S : i >= j
Extreme(S, lowest) == IF S = {} THEN None ELSE Some(IF lowest THEN Min(S) ELSE Max(S))
\* C15: for the mask m of every store (each value of 0 .. MAX is the mask of
\* store 1 in some state), lowest_occupied_index and
\* highest_occupied_index are the least and the greatest index whose bit is
\* set in m, or none if m is 0; lowest_vacant_index and highest_vacant_index
\* are the least and the greatest index whose bit is clear, or none if m is
\* all ones; every index returned is below CAPACITY; and the calls on a store
\* return these values for its mask.
C15_BitScan ==
    /\ \A m \in {mask[s] : s \in Stores} :
          /\ lowest_occupied_index(m) = Extreme(SetBits(m), TRUE)
          /\ highest_occupied_index(m) = Extreme(SetBits(m), FALSE)
          /\ lowest_vacant_index(m) = Extreme(Slots \ SetBits(m), TRUE)
          /\ highest_vacant_index(m) = Extreme(Slots \ SetBits(m), FALSE)
          /\ \A which \in Getters \ {"len", "is_empty"} :
                getter(which, m) # None => getter(which, m).val \in Slots
    /\ last.op = "lowest_occupied_index" =>
          last.res = Extreme(SetBits(mask[last.s]), TRUE)
    /\ last.op = "highest_occupied_index" =>
          last.res = Extreme(SetBits(mask[last.s]), FALSE)
    /\ last.op = "lowest_vacant_index" =>
          last.res = Extreme(Slots \ SetBits(mask[last.s]), TRUE)
    /\ last.op = "highest_vacant_index" =>
          last.res = Extreme(Slots \ SetBits(mask[last.s]), FALSE)
C15_Witness ==
    /\ last.op = "lowest_vacant_index" /\ last.res.tag = "some" /\ last.res.val > 0
    /\ highest_occupied_index(mask[1]) = Some(CAPACITY - 1)
    /\ highest_vacant_index(mask[1]) # None
    /\ highest_vacant_index(mask[1]).val < CAPACITY - 1

C16_Shared == {"first_occupied", "last_occupied"}
C16_Mut == {"first_occupied_mut", "last_occupied_mut"}
C16_First == {"first_occupied", "first_occupied_mut"}
\* C16: first_occupied and first_occupied_mut look at the least index whose
\* bit is set, last_occupied and last_occupied_mut at the greatest, and
\* return none when no bit is set; the index they dereference is occupied;
\* they return the value of that slot, the same as a get at that index just
\* before returned; the shared forms change nothing and release nothing; a
\* write through a mutable form changes that one slot only.
C16_FirstLastOccupied ==
    [][(last'.op \in C16_Shared \cup C16_Mut) =>
        \E s \in {last'.s}, r \in {Extreme(SetBits(mask[last'.s]), last'.op \in C16_First)} :
          /\ mask' = mask
          /\ last'.op \in C16_Shared =>
                (data' = data /\ place' = place /\ drops' = drops)
          /\ IF r = None
             THEN last'.res = None /\ data' = data /\ place' = place /\ drops' = drops
             ELSE /\ last'.idx = r.val
                  /\ ~is_vacant(mask[s], r.val)
                  /\ live(data[s][r.val]) => last'.res = Some(data[s][r.val])
                  /\ (last.op = "get" /\ last.s = s /\ last.idx = r.val) =>
                        last'.res = last.res
                  /\ \A j \in Slots \ {r.val} : data'[s][j] = data[s][j]
                  /\ data'[s][r.val] =
                        (IF last'.arg = Garbage THEN data[s][r.val] ELSE last'.arg)
      ]_vars
C16_Witness ==
    /\ last.op = "last_occupied_mut" /\ last.res.tag = "some" /\ last.arg # Garbage
    /\ data[1][last.idx] = last.arg
    /\ Cardinality(SetBits(mask[1])) >= 2

C17_Ops == {"insert_at_first_vacancy", "insert_at_last_vacancy"}
\* C17: on a store whose slots are all occupied, insert_at_first_vacancy(x)
\* and insert_at_last_vacancy(x) return err(x): they do not panic, x is with
\* the caller again, no value is released, and the mask, the slots and len()
\* are as before.
C17_FullStoreRejects ==
    [][(last'.op \in C17_Ops /\ SetBits(mask[last'.s]) = Slots) =>
          /\ last'.res = [tag |-> "err", val |-> last'.arg]
          /\ place' = [place EXCEPT ![last'.arg] = "caller"]
          /\ drops' = drops
          /\ mask' = mask /\ data' = data
          /\ len(mask'[last'.s]) = CAPACITY
          /\ ~ub'
      ]_vars
C17_Witness ==
    /\ last.op = "insert_at_first_vacancy" /\ last.res.tag = "err"
    /\ WellFormed(1) /\ len(mask[1]) = CAPACITY
    /\ place[last.arg] = "caller" /\ drops[last.arg] = 0

\* C18: on a store that is not full, insert_at_first_vacancy(x) stores x at
\* the least vacant index and insert_at_last_vacancy(x) at the greatest; each
\* returns ok(none), raises len() by 1, releases nothing and leaves every
\* other slot as it was; two first-vacancy inserts in a row fill ascending
\* indices and two last-vacancy inserts descending ones.
C18_VacancyInsert ==
    [][(last'.op \in C17_Ops /\ SetBits(mask[last'.s]) # Slots) =>
        \E s \in {last'.s}, first \in {last'.op = "insert_at_first_vacancy"} :
        \E i \in {Extreme(Slots \ SetBits(mask[s]), first).val} :
          /\ last'.idx = i
          /\ last'.res = [tag |-> "ok", val |-> 0, some |-> FALSE]
          /\ data'[s] = [data[s] EXCEPT ![i] = last'.arg]
          /\ mask'[s] = bitor(mask[s], i)
          /\ len(mask'[s]) = len(mask[s]) + 1
          /\ drops' = drops
          /\ place' = [place EXCEPT ![last'.arg] = "held"]
          /\ ~ub'
          /\ (last.op = last'.op /\ last.s = s /\ last.res.tag = "ok") =>
                (IF first THEN last'.idx > last.idx ELSE last'.idx < last.idx)
      ]_vars
C18_Witness ==
    /\ last.op = "insert_at_last_vacancy" /\ last.res.tag = "ok"
    /\ last.idx < CAPACITY - 1 /\ last.idx > 0
    /\ data[1][last.idx] = last.arg
    /\ is_vacant(mask[1], 0)

\* C19: a store made from an array of CAPACITY values (here the values
\* 1 .. CAPACITY in this order) has every bit of the mask set, len() ==
\* CAPACITY and no vacant index; slot i holds the i-th value of the array, so
\* the values are all held, once each; none was released; and a get(i) right
\* after the construction returns the i-th value.
C19_FromArray ==
    [][/\ last'.op = "from" =>
            \E s \in {last'.s} :
              /\ SetBits(mask'[s]) = Slots
              /\ len(mask'[s]) = CAPACITY
              /\ lowest_vacant_index(mask'[s]) = None
              /\ \A i \in Slots : data'[s][i] = i + 1
              /\ \A i, j \in Slots : data'[s][i] = data'[s][j] => i = j
              /\ \A v \in AllIds : place'[v] = (IF v \in 1 .. CAPACITY THEN "held" ELSE place[v])
              /\ drops' = drops
              /\ ~ub'
       /\ (last.op = "from" /\ last'.op = "get" /\ last'.s = last.s /\ last'.idx < CAPACITY) =>
            last'.res = Some(last'.idx + 1)
      ]_vars
C19_Witness ==
    /\ last.op = "get" /\ last.res = Some(CAPACITY) /\ last.idx = CAPACITY - 1
    /\ \A i \in Slots : data[1][i] = i + 1 /\ ~is_vacant(mask[1], i)
    /\ \A v \in Ids : drops[v] = 0 /\ (place[v] = "held" <=> v <= CAPACITY)

\* the positions of the pairs of idxs that name index i
Naming(idxs, i) == {k \in 1 .. Len(idxs) : idxs[k] = i}
\* C20: collecting a sequence of (index, value) pairs with indices below
\* CAPACITY gives a store in which an index named by some pair is occupied by
\* the value of the last pair naming it, an index named by no pair is vacant,
\* and the value of every earlier pair at a repeated index has been released
\* once and is held no more; nothing else is released.  It is the store that
\* new and insert build: no pairs give the store new gives, and an insert
\* right after the collection gives the store that collecting one more pair
\* gives.
C20_FromIterIsInserts ==
    [][/\ (last'.op = "from_iter" /\ last'.res # Panic) =>
            \E s \in {last'.s}, idxs \in {last'.arg} :
              /\ \A i \in Slots :
                    IF Naming(idxs, i) = {}
                    THEN is_vacant(mask'[s], i) /\ ~live(data'[s][i])
                    ELSE ~is_vacant(mask'[s], i) /\ data'[s][i] = Max(Naming(idxs, i))
              /\ \A k \in 1 .. Len(idxs) :
                    IF k = Max(Naming(idxs, idxs[k]))
                    THEN place'[k] = "held" /\ drops'[k] = 0
                    ELSE place'[k] = "released" /\ drops'[k] = 1
              /\ \A v \in AllIds \ (1 .. Len(idxs)) :
                    place'[v] = place[v] /\ drops'[v] = drops[v]
              /\ idxs = << >> => (mask'[s] = 0 /\ \A i \in Slots : ~live(data'[s][i]))
              /\ ~ub'
       /\ (last.op = "from_iter" /\ last.res # Panic /\ last'.op = "insert"
             /\ last'.res # Panic /\ last'.s = last.s /\ last'.arg = Len(last.arg) + 1) =>
            \E blk \in {from_iter_loop(from_iter_default, Append(last.arg, last'.idx), 1)} :
              /\ mask'[last.s] = blk.mask
              /\ data'[last.s] = blk.data
              /\ last'.res = (IF is_vacant(mask[last.s], last'.idx) THEN None
                              ELSE Some(data[last.s][last'.idx]))
      ]_vars
C20_Witness ==
    /\ last.op = "from_iter" /\ last.res = Unit
    /\ Len(last.arg) = 3 /\ last.arg[1] = last.arg[3] /\ last.arg[2] # last.arg[1]
    /\ data[1][last.arg[1]] = 3 /\ place[1] = "released" /\ drops[1] = 1
    /\ Cardinality(SetBits(mask[1])) = 2

\* the k-th smallest element of the set S of indices
Nth(S, k) == CHOOSE i \in S : Cardinality({j \in S : j < i}) = k - 1
\* the values of the occupied slots of a store with mask m and cells d, in
\* ascending order of their indices
AscendingValues(m, d) ==
    [k \in 1 .. Cardinality(SetBits(m)) |-> d[Nth(SetBits(m), k)]]
\* q is the sequence of the first values of r
IsPrefix(q, r) == Len(q) <= Len(r) /\ \A k \in 1 .. Len(q) : q[k] = r[k]

\* C21: making a shared iterator and every step of it leave the mask, the
\* slots and the ledger of values unchanged (nothing is released or cloned);
\* a step that yields stops at the first occupied index at or after the
\* cursor, having skipped vacant indices only, and moves the cursor past it;
\* and over a store whose occupied slots are all constructed it yields the
\* value of that slot, the values yielded so far being the first values of the
\* occupied slots in ascending index order, and when it returns none it has
\* yielded exactly these values, len() of them.
C21_SharedIterYieldsOccupied ==
    [][/\ last'.op \in {"iter", "iter_next"} =>
            (mask' = mask /\ data' = data /\ place' = place /\ drops' = drops)
       /\ (last'.op = "iter_next" /\ last'.res # None) =>
            \E s \in {last'.s}, i \in {last'.idx} :
              /\ i \in Slots /\ i >= pos[s] /\ pos'[s] = i + 1
              /\ ~is_vacant(mask[s], i)
              /\ \A j \in Slots : (pos[s] <= j /\ j < i) => is_vacant(mask[s], j)
              /\ WellFormed(s) =>
                    /\ last'.res = Some(data[s][i])
                    /\ IsPrefix(last'.pre, AscendingValues(mask[s], data[s]))
                    /\ Len(last'.pre) = Len(last.pre) + 1
                    /\ ~ub'
       /\ (last'.op = "iter_next" /\ last'.res = None) =>
            \E s \in {last'.s} :
              /\ \A j \in Slots : j >= pos[s] => is_vacant(mask[s], j)
              /\ WellFormed(s) =>
                    /\ last'.pre = AscendingValues(mask[s], data[s])
                    /\ Len(last'.pre) = len(mask[s])
                    /\ ~ub'
      ]_vars
C21_Witness ==
    /\ last.op = "iter_next" /\ last.res = None /\ last.s = 1
    /\ last.pre = <<2, 1>> /\ is_vacant(mask[1], 1)
    /\ data[1][0] = 2 /\ data[1][2] = 1
    /\ place[1] = "held" /\ place[2] = "held"

\* The steps of the three iterators.
C22_Steps == {"iter_next", "iter_mut_next", "next"}
\* C22: over every store whose occupied slots are all constructed, the shared,
\* the mutable and the owning iterator collect the same sequence: the values
\* of the occupied slots in ascending index order, len() of them.  And every
\* step of each of the three (the mutable one used without writing) behaves
\* alike: it returns none if no index at or after the cursor is occupied, and
\* else yields the value of the least such index, moves the cursor past it and
\* leaves the mask and the slots after the cursor as they were.
C22_IteratorsAgree ==
    /\ [](\A s \in Stores : (st[s] = "live" /\ WellFormed(s)) =>
            /\ iter_collect(mask[s], data[s], 0) = AscendingValues(mask[s], data[s])
            /\ iter_mut_collect(mask[s], data[s], 0) = iter_collect(mask[s], data[s], 0)
            /\ into_iter_collect(mask[s], data[s], 0) = iter_collect(mask[s], data[s], 0)
            /\ Len(iter_collect(mask[s], data[s], 0)) = len(mask[s]))
    /\ [][(last'.op \in C22_Steps /\ last'.arg = Garbage) =>
            \E s \in {last'.s}, R \in {{i \in SetBits(mask[last'.s]) : i >= pos[last'.s]}} :
              /\ mask' = mask
              /\ IF R = {}
                 THEN last'.res = None /\ data' = data
                 ELSE /\ last'.idx = Min(R)
                      /\ pos'[s] = Min(R) + 1
                      /\ live(data[s][Min(R)]) => last'.res = Some(data[s][Min(R)])
                      /\ \A j \in Slots : j > Min(R) => data'[s][j] = data[s][j]
          ]_vars
C22_Witness ==
    /\ last.op = "next" /\ last.res = Some(1) /\ last.idx = 2
    /\ is_vacant(mask[1], 1) /\ ~is_vacant(mask[1], 0)
    /\ place[1] = "caller" /\ place[2] = "caller" /\ ~ub

\* C23: every item of a mutable iterator is a reference to an occupied slot,
\* at an index at or after the cursor, and the cursor then moves past it, so
\* the indices yielded strictly ascend and no slot is yielded twice; when the
\* iterator returns none no occupied index is left after the cursor and it has
\* yielded len() items.  A write through the reference yielded for index i puts
\* the written value into slot i and changes no other slot; the value it
\* replaces (where slot i was constructed) is released once, and no other
\* value is released.  The mask is the same before and after every step, and
\* when the iterator is gone.
C23_IterMutNoAlias ==
    [][/\ last'.op \in {"iter_mut", "iter_mut_next", "drop_iter"} => mask' = mask
       /\ (last'.op = "iter_mut_next" /\ last'.res # None) =>
            \E s \in {last'.s}, i \in {last'.idx}, w \in {last'.arg} :
              /\ i \in Slots /\ ~is_vacant(mask[s], i)
              /\ i >= pos[s] /\ pos'[s] = i + 1
              /\ (last.op = "iter_mut_next" /\ last.res # None) => i > last.idx
              /\ Len(last'.pre) = Len(last.pre) + 1
              /\ \A j \in Slots : j # i => data'[s][j] = data[s][j]
              /\ IF w = Garbage
                 THEN data' = data /\ place' = place /\ drops' = drops
                 ELSE /\ data'[s][i] = w /\ place'[w] = "held" /\ drops'[w] = 0
                      /\ live(data[s][i]) =>
                            /\ place[data[s][i]] = "held"
                            /\ place'[data[s][i]] = "released"
                            /\ drops'[data[s][i]] = 1
                            /\ \A v \in AllIds \ {data[s][i]} : drops'[v] = drops[v]
                            /\ \A v \in AllIds \ {data[s][i], w} : place'[v] = place[v]
                            /\ ~ub'
       /\ (last'.op = "iter_mut_next" /\ last'.res = None) =>
            /\ \A j \in Slots : j >= pos[last'.s] => is_vacant(mask[last'.s], j)
            /\ Len(last'.pre) = len(mask[last'.s])
            /\ data' = data /\ place' = place /\ drops' = drops
      ]_vars
C23_Witness ==
    /\ last.op = "iter_mut_next" /\ last.res = None /\ last.pre = <<1, 2>>
    /\ data[1][0] = 3 /\ data[1][2] = 2 /\ is_vacant(mask[1], 1)
    /\ place[1] = "released" /\ drops[1] = 1 /\ place[3] = "held" /\ ~ub

\* C24: the cursor of an iterator never exceeds CAPACITY; every step of the
\* shared, the mutable and the owning iterator that yields an item yields it
\* for an index below CAPACITY and moves the cursor forward by at least one,
\* and no step moves it back, so an iterator passes at most CAPACITY indices
\* and yields at most CAPACITY items (a borrowing iterator has never yielded
\* more items than its cursor has passed); a step that returns none leaves the
\* cursor at CAPACITY, and a step taken with the cursor at CAPACITY, as every
\* step after one that returned none is, returns none.
C24_IteratorsTerminate ==
    /\ [](\A s \in Stores :
            /\ pos[s] \in 0 .. CAPACITY
            /\ (st[s] \in {"ref", "mut"} /\ last.s = s) =>
                  (Len(last.pre) <= pos[s] /\ Len(last.pre) <= CAPACITY))
    /\ [][last'.op \in C22_Steps =>
            \E s \in {last'.s} :
              /\ pos'[s] >= pos[s]
              /\ IF last'.res = None
                 THEN pos'[s] = CAPACITY
                 ELSE last'.idx \in Slots /\ pos'[s] > pos[s] /\ pos[s] < CAPACITY
              /\ pos[s] = CAPACITY => last'.res = None
              /\ (last.op = last'.op /\ last.res = None) => last'.res = None
          ]_vars
C24_Witness ==
    /\ last.op = "iter_next" /\ last.res = None /\ last.idx = CAPACITY
    /\ is_vacant(mask[1], CAPACITY - 1) /\ Len(last.pre) = 2

\* C25: for every width N and every element type T, size_of of the store is
\* N * size_of(T) plus the N / 8 bytes of the mask, with nothing added.
C25_Footprint ==
    last.op = "size_of" => last.res = Num(last.s * last.idx + last.s \div 8)

\* C26: a step of the owning iterator that yields the value of index i clears
\* bit i of the iterator's mask and no other bit, so that the mask marks the
\* occupied slots not yet yielded; and when the iterator is discarded every
\* value it has not yielded is released, once.
C26_YieldClearsBit ==
    [][/\ (last'.op = "next" /\ last'.res # None) =>
            \A j \in Slots :
               is_vacant(mask'[last'.s], j) <=> (j = last'.idx \/ is_vacant(mask[last'.s], j))
       /\ last'.op = "drop_into_iter" =>
            \A j \in Slots : (~is_vacant(mask[last'.s], j) /\ j >= pos[last'.s]
                                /\ live(data[last'.s][j])) =>
               (place'[data[last'.s][j]] = "released" /\ drops'[data[last'.s][j]] = 1)
      ]_vars

\* C27: when the clone of the element at index j of a store whose occupied
\* slots are all constructed panics, the destruction of the partly built copy
\* reads no unconstructed slot as a value; it destroys the clones made at the
\* occupied indices below j, once each, and nothing else; and the source store
\* is unchanged.
C27_CloneUnwind ==
    [][(last'.op = "clone" /\ last'.res = Panic /\ WellFormed(last'.s) /\ ~ub) =>
          \E s \in {last'.s}, j \in {last'.idx} :
            /\ ~ub'
            /\ \A i \in Slots : (~is_vacant(mask[s], i) /\ i < j) =>
                  /\ place'[clone_of(data[s][i])] = "released"
                  /\ drops'[clone_of(data[s][i])] = 1
            /\ \A v \in AllIds :
                  (\A i \in Slots : ~(~is_vacant(mask[s], i) /\ i < j /\ v = clone_of(data[s][i])))
                     => (drops'[v] = drops[v] /\ place'[v] = place[v])
            /\ mask' = mask /\ data' = data
      ]_vars

\* the slots, of any store or owning iterator, that hold the value v
Holders(v) == {h \in Stores \X Slots : data[h[1]][h[2]] = v}
\* C28: in every state every value is in exactly one place: held in exactly
\* one slot of one store or owning iterator and not released, or with the
\* caller (or not yet made), in no slot and not released, or released, in no
\* slot and released exactly once; and no slot was read while unconstructed.
C28_OwnershipConserved ==
    /\ ~ub
    /\ \A v \in AllIds :
          /\ place[v] = "held" => (Cardinality(Holders(v)) = 1 /\ drops[v] = 0)
          /\ place[v] \in {"caller", "unborn"} => (Holders(v) = {} /\ drops[v] = 0)
          /\ place[v] = "released" => (Holders(v) = {} /\ drops[v] = 1)

\* the result of get(j) on a store with mask m and cells d
GetResult(m, d, j) == IF is_vacant(m, j) THEN None ELSE Some(d[j])
\* C29: insert(i, v) and get_or_else(i, f) with i < CAPACITY, whether they
\* return or the producer f panics, leave every other index j as it was:
\* is_vacant(j), the cell of slot j and so the result of get(j) are the same
\* before and after; no other store changes; and len() is one more than before
\* if slot i was vacant and the same if it was occupied.
C29_WriteFrame ==
    [][(last'.op \in {"insert", "get_or_else"} /\ last'.idx < CAPACITY) =>
         \E s \in {last'.s}, i \in {last'.idx} :
           /\ \A j \in Slots \ {i} :
                 /\ is_vacant(mask'[s], j) <=> is_vacant(mask[s], j)
                 /\ data'[s][j] = data[s][j]
                 /\ GetResult(mask'[s], data'[s], j) = GetResult(mask[s], data[s], j)
           /\ \A u \in Stores \ {s} : mask'[u] = mask[u] /\ data'[u] = data[u]
           /\ len(mask'[s]) = len(mask[s]) + (IF is_vacant(mask[s], i) THEN 1 ELSE 0)
      ]_vars
C29_Witness ==
    /\ last.op = "get_or_else" /\ last.res.tag = "some" /\ last.arg # Garbage
    /\ last.idx = 1 /\ ~is_vacant(mask[1], 0) /\ is_vacant(mask[1], 2)
    /\ data[1][1] = last.arg /\ live(data[1][0]) /\ len(mask[1]) = 2

\* The number of vacancy inserts that succeed in a run on a store with mask m:
\* the run takes the first vacancy if first, else the last, and alternates
\* between the two if alt.
RECURSIVE FillRun(_, _, _)
FillRun(m, first, alt) ==
    IF (IF first THEN lowest_vacant_index(m) ELSE highest_vacant_index(m)) = None
    THEN 0
    ELSE 1 + FillRun(insert_mask(m, (IF first THEN lowest_vacant_index(m)
                                     ELSE highest_vacant_index(m)).val),
                     IF alt THEN ~first ELSE first, alt)
\* C30: on every store with len() = L a run of first-vacancy inserts, of
\* last-vacancy inserts, or of the two in turn, succeeds exactly CAPACITY - L
\* times; the store is full exactly when there is no lowest and no highest
\* vacant index; and every vacant index lies between lowest_vacant_index() and
\* highest_vacant_index().  A vacancy insert succeeds exactly when the store
\* is not full; a success fills one vacancy, the lowest for a first-vacancy and
\* the highest for a last-vacancy insert, so that the vacancies left lie above
\* respectively below it, and leaves the other vacancies vacant; on a full
\* store the call returns err(value) and the store stays full.
C30_FillingByVacancyInserts ==
    /\ [](\A s \in Stores : st[s] = "live" =>
            /\ \A first, alt \in BOOLEAN :
                  FillRun(mask[s], first, alt) = CAPACITY - len(mask[s])
            /\ (len(mask[s]) = CAPACITY) <=> (lowest_vacant_index(mask[s]) = None)
            /\ (len(mask[s]) = CAPACITY) <=> (highest_vacant_index(mask[s]) = None)
            /\ \A j \in Slots : is_vacant(mask[s], j) =>
                  /\ lowest_vacant_index(mask[s]).val <= j
                  /\ j <= highest_vacant_index(mask[s]).val)
    /\ [][last'.op \in C17_Ops =>
            \E s \in {last'.s}, V \in {Slots \ SetBits(mask[last'.s])} :
              IF len(mask[s]) < CAPACITY
              THEN /\ last'.res.tag = "ok"
                   /\ last'.idx \in V
                   /\ Slots \ SetBits(mask'[s]) = V \ {last'.idx}
                   /\ len(mask'[s]) = len(mask[s]) + 1
                   /\ \A j \in V \ {last'.idx} :
                         IF last'.op = "insert_at_first_vacancy"
                         THEN j > last'.idx ELSE j < last'.idx
              ELSE /\ last'.res.tag = "err" /\ last'.res.val = last'.arg
                   /\ mask' = mask /\ len(mask'[s]) = CAPACITY
          ]_vars
C30_Witness ==
    /\ last.op = "insert_at_last_vacancy" /\ last.res.tag = "ok" /\ last.idx = 1
    /\ len(mask[1]) = CAPACITY /\ WellFormed(1)
    /\ lowest_vacant_index(mask[1]) = None
====
